---- MODULE Spec2Model ----
(***************************************************************************)
(* A model of the image2Reg preprocessing and dataset layer:               *)
(*   - ImageDatasetPreprocessor (src/preprocessing/image_preprocessing.py) *)
(*   - TorchNucleiImageDataset  (src/data/datasets.py)                     *)
(* Strings are sequences of one-character strings, indexed from 0 as in    *)
(* Python (position k of the Python string is element k+1 of the sequence).*)
(* An optional argument is a record: None, or Some(v).                     *)
(***************************************************************************)
EXTENDS Integers, Sequences, FiniteSets, TLC

VARIABLES
    metadata,       \* self.metadata: the table, a sequence of rows
    prev_metadata,  \* history: self.metadata when the last call was entered
    call,           \* history: the last call made on the preprocessor, with its arguments
    err,            \* the exception the last call raised, or "none"
    src_files,      \* the files under image_input_dir, as <<plate, file name>>
    out_files,      \* the files under <output_dir>/filtered, as <<plate, file name>>
    log,            \* what logging.error was given, in order
    cp_pc,          \* save_filtered_images: "idle", "loop", "done" or "raised"
    cp_i,           \* save_filtered_images: the loop variable i
    outline_files,  \* the files under outline_input_dir, as <<plate, file name>>
    crop_files,     \* the files under <output_dir>/segmented_nuclei, as <<plate, file name>>
    seg_pc,         \* segment_all_images_given_outlines: "idle", "loop", "labelled", "regions", "done", "raised"
    seg_i,          \* the loop variable i of the image loop
    thr,            \* the thresholds the call was given
    regions,        \* the regions of image i still to visit, by label
    region,         \* the loop variable region, with the properties read from it
    max_width,      \* the local max_width
    max_length,     \* the local max_length
    nuclei_metadata,\* the local list nuclei_metadata
    accepted,       \* history: the <<image, label>> of the regions that passed the filter
    shapes,         \* history: the <<width, length>> of the regions that passed the filter
    pad_size,       \* self.pad_size
    image_metadata, \* the local image_metadata: per image row, the nuclei-count column
    processed_image_metadata, \* self.processed_image_metadata
    label_image,    \* the local label_image between lines 153 and 155
    csv_rows,       \* the rows of the dataset's metadata_file
    target_list,    \* the caller's list object passed as target_list
    target_arg,     \* history: what target_list held when the constructor was called
    ds_metadata,    \* TorchNucleiImageDataset.metadata
    ds_pc,          \* the constructor: "new", "filtered" after line 53, "sampled"
                    \* after line 66, then "done" or "raised"
    n_control_samples, \* the argument n_control_samples
    ds_err,         \* the exception the constructor raised, or "none"
    filtered,       \* history: self.metadata as line 53 left it
    mt_1234,        \* what RandomState(1234) has been seen to draw, per sequence of requests
    image_locs,     \* self.image_locs
    labels,         \* self.labels
    le_classes,     \* le.classes_
    transform_pipeline, \* self.transform_pipeline
    pseudo_rgb,     \* self.pseudo_rgb
    prev_build,     \* history: the arguments and the result of the construction before this one
    ds_files,       \* the image files on disk, by path
    sub_pipeline,   \* TorchTransformableSubset.transform_pipeline, per subset
    last_given,     \* history: the last set_transform_pipeline call, who it was made on and its argument
    workers,        \* per reader: where its __getitem__ call stands and what it returned last
    pad_pc,         \* save_padded_images: "idle", "loop", "done" or "raised"
    pad_i,          \* save_padded_images: the loop variable i
    file_list,      \* save_padded_images: the local file_list
    target_size,    \* save_padded_images: the target size in use, in pixels
    padded_image,   \* the image last written under padded_nuclei, with what it was made of
    padded_files,   \* the names of the files under <output_dir>/padded_nuclei
    tr_pc,          \* train_models: "idle", "loop", "loaded", "done" or "raised"
    n_folds,        \* self.n_folds
    tr_i,           \* train_models: the loop variable i
    model_weights,  \* domain_model_config.model.state_dict(), the live weights
    initial_model_weights, \* the local initial_model_weights
    entry_weights,  \* history: the weights when train_models was entered
    data_loader_dicts, \* self.data_loader_dicts
    data_loader_dict,  \* self.domain_config.data_loader_dict
    fold_dirs,      \* the fold numbers k with a directory <output_dir>/fold_k
    loss_dicts,     \* self.loss_dicts
    best_loss_dicts,\* self.best_loss_dicts
    completed       \* history: the fold numbers whose iteration ran to its end, in order

cur_vars == <<metadata, prev_metadata, call, err>>
cp_vars == <<src_files, out_files, log, cp_pc, cp_i>>
seg_vars == <<outline_files, crop_files, seg_pc, seg_i, thr, regions, region,
              max_width, max_length, nuclei_metadata, accepted, shapes, pad_size,
              image_metadata, processed_image_metadata, label_image>>
count_vars == <<image_metadata, processed_image_metadata, label_image>>
pre_vars == <<cur_vars, cp_vars, seg_vars>>
ds_vars == <<csv_rows, target_list, target_arg, ds_metadata, ds_pc,
             n_control_samples, ds_err, filtered, mt_1234, image_locs, labels,
             le_classes, transform_pipeline, pseudo_rgb, prev_build>>

\* What the preprocessor's methods cannot touch, and what the dataset's cannot.
view_vars == <<ds_files, sub_pipeline, last_given, workers>>

pad_vars == <<pad_pc, pad_i, file_list, target_size, padded_image, padded_files>>

train_vars == <<tr_pc, n_folds, tr_i, model_weights, initial_model_weights,
                entry_weights, data_loader_dicts, data_loader_dict, fold_dirs,
                loss_dicts, best_loss_dicts, completed>>

outside_pre == <<ds_vars, view_vars, pad_vars, train_vars>>
outside_ds == <<pre_vars, view_vars, pad_vars, train_vars>>

vars == <<pre_vars, ds_vars, view_vars, pad_vars, train_vars>>

----------------------------------------------------------------------------
(* Bounds *)

MaxRows == 3
MaxImages == 2
MaxSamples == 3

----------------------------------------------------------------------------
(* Optional values and sequences *)

None == [some |-> FALSE]
Some(v) == [some |-> TRUE, val |-> v]

SeqsUpTo(S, n) == UNION {[1..k -> S] : k \in 0..n}

Range(s) == {s[k] : k \in 1..Len(s)}

----------------------------------------------------------------------------
(* The metadata table *)

Plates == {1, 2}
Wells == {"A01", "B02"}

DefaultRaw == <<"a", ".", "t">>

NoCol == <<"#">>

\* A row of the table as pd.read_csv returns it: idx is the row's index label.
Row(i, p, w, raw, ill, bl, sat) ==
    [idx |-> i, plate |-> p, well |-> w, raw |-> raw, illum |-> ill,
     blurry |-> bl, saturated |-> sat]

\* The index labels read_csv assigns: 0, 1, 2, ... in file order.
Indexed(t) == [k \in 1..Len(t) |-> [t[k] EXCEPT !.idx = k - 1]]

NoCall == [op |-> "none"]

\* The file system untouched and no copy under way.
IdleCopy ==
    /\ src_files = {}
    /\ out_files = {}
    /\ log = <<>>
    /\ cp_pc = "idle"
    /\ cp_i = 0

NoRegion == [label |-> 0]

NoLabelImage == [components |-> <<>>, background |-> TRUE]

\* The readers, and the subsets made of the dataset with their indices.
Workers == {1, 2}
Subsets == {"A", "B"}

\* No subset made and nothing read.
IdleViews ==
    /\ ds_files = {}
    /\ sub_pipeline = [sb \in Subsets |-> None]
    /\ last_given = None
    /\ workers = [w \in Workers |-> [pc |-> "idle", sample |-> None]]

\* The weights a model can have, and the data loader dictionaries of the folds.
Weights == {"w0", "w1", "w2"}
Loaders == {"dA", "dB"}

\* No experiment set up: nothing to train and nothing trained.
IdleTrain ==
    /\ tr_pc = "idle"
    /\ n_folds = 0
    /\ tr_i = 0
    /\ model_weights = "w0"
    /\ initial_model_weights = None
    /\ entry_weights = None
    /\ data_loader_dicts = <<>>
    /\ data_loader_dict = None
    /\ fold_dirs = {}
    /\ loss_dicts = <<>>
    /\ best_loss_dicts = <<>>
    /\ completed = <<>>

\* No dataset constructed.
IdleDs ==
    /\ IdleTrain
    /\ csv_rows = <<>>
    /\ target_list = None
    /\ target_arg = None
    /\ ds_metadata = <<>>
    /\ ds_pc = "new"
    /\ n_control_samples = None
    /\ ds_err = "none"
    /\ filtered = <<>>
    /\ mt_1234 = {}
    /\ image_locs = <<>>
    /\ labels = None
    /\ le_classes = <<>>
    /\ transform_pipeline = None
    /\ pseudo_rgb = FALSE
    /\ prev_build = None
    /\ IdleViews

\* No padding run made.
IdlePad ==
    /\ pad_pc = "idle"
    /\ pad_i = 0
    /\ file_list = <<>>
    /\ target_size = None
    /\ padded_image = None
    /\ padded_files = {}

\* No segmentation run made yet: self.pad_size is None (line 45).
IdleSeg ==
    /\ IdlePad
    /\ outline_files = {}
    /\ crop_files = {}
    /\ seg_pc = "idle"
    /\ seg_i = 0
    /\ thr = None
    /\ regions = <<>>
    /\ region = NoRegion
    /\ max_width = 0
    /\ max_length = 0
    /\ nuclei_metadata = <<>>
    /\ accepted = {}
    /\ shapes = {}
    /\ pad_size = None
    /\ image_metadata = <<>>
    /\ processed_image_metadata = None
    /\ label_image = NoLabelImage

----------------------------------------------------------------------------
(* remove_outlier_images *)

\* The pair filter with "and" for "or": it would drop every row of the plate
\* and every row of the well.
DropPlatePairMutant(md, pw) ==
    SelectSeq(md, LAMBDA r : r.plate # pw[1] /\ r.well # pw[2])

DropPlate(md, p) == SelectSeq(md, LAMBDA r : r.plate # p)

DropPlatePair(md, pw) ==
    SelectSeq(md, LAMBDA r : r.plate # pw[1] \/ r.well # pw[2])

DropWell(md, w) == SelectSeq(md, LAMBDA r : r.well # w)

RECURSIVE DropPlates(_, _)
DropPlates(md, ps) ==
    IF ps = <<>> THEN md ELSE DropPlates(DropPlate(md, Head(ps)), Tail(ps))

RECURSIVE DropPlatePairs(_, _)
DropPlatePairs(md, pws) ==
    IF pws = <<>> THEN md
    ELSE DropPlatePairs(DropPlatePair(md, Head(pws)), Tail(pws))

RECURSIVE DropWells(_, _)
DropWells(md, ws) ==
    IF ws = <<>> THEN md ELSE DropWells(DropWell(md, Head(ws)), Tail(ws))

\* The argument lists tried: None, the empty list, one element, two elements.
OutlierPlateArgs == {None, Some(<<>>), Some(<<1>>), Some(<<1, 2>>)}
OutlierPairArgs ==
    {None, Some(<<<<1, "A01">>>>), Some(<<<<1, "A01">>, <<2, "B02">>>>)}
OutlierWellArgs == {None, Some(<<"A01">>), Some(<<"B02", "A01">>)}

RemoveOutlierImages(outlier_plates, outlier_plate_wells, outlier_wells) ==
    LET m1 == IF outlier_plates.some
              THEN DropPlates(metadata, outlier_plates.val) ELSE metadata
        m2 == IF outlier_plate_wells.some
              THEN DropPlatePairs(m1, outlier_plate_wells.val) ELSE m1
        m3 == IF outlier_wells.some
              THEN DropWells(m2, outlier_wells.val) ELSE m2
    IN  /\ metadata' = m3
        /\ prev_metadata' = metadata
        /\ call' = [op |-> "remove_outlier_images", plates |-> outlier_plates,
                    pairs |-> outlier_plate_wells, wells |-> outlier_wells]
        /\ err' = "none"
        /\ UNCHANGED <<cp_vars, seg_vars, outside_pre>>

OutlierTables ==
    {Indexed(t) : t \in SeqsUpTo(
        {Row(0, p, w, DefaultRaw, NoCol, 0, 0) : p \in Plates, w \in Wells},
        MaxRows)}

InitOutlier ==
    /\ metadata \in OutlierTables
    /\ prev_metadata = metadata
    /\ call = NoCall
    /\ err = "none"
    /\ IdleCopy
    /\ IdleSeg
    /\ IdleDs

NextOutlier ==
    \E ps \in OutlierPlateArgs, pws \in OutlierPairArgs, ws \in OutlierWellArgs :
        RemoveOutlierImages(ps, pws, ws)

SpecOutlier == InitOutlier /\ [][NextOutlier]_vars

\* Row r matches one of the exclusions of call c.
Excluded(r, c) ==
    \/ c.plates.some /\ r.plate \in Range(c.plates.val)
    \/ c.pairs.some /\ <<r.plate, r.well>> \in Range(c.pairs.val)
    \/ c.wells.some /\ r.well \in Range(c.wells.val)

\* C4: after remove_outlier_images the table holds exactly the prior rows that
\* match no exclusion: plate not in outlier_plates, (plate, well) not in
\* outlier_plate_wells, well not in outlier_wells; a filter given as None
\* removes nothing, and no row is duplicated.
C4_OutlierExclusionExact ==
    call.op = "remove_outlier_images" =>
        LET kept == {r \in Range(prev_metadata) : ~Excluded(r, call)}
        IN  /\ Range(metadata) = kept
            /\ Len(metadata) = Cardinality(kept)

\* A call with the pair (1, "A01") after which a row of plate 1 in another well
\* and a row of well "A01" on another plate survive, and a row was dropped.
C4_Witness ==
    /\ call.op = "remove_outlier_images"
    /\ call.pairs = Some(<<<<1, "A01">>>>)
    /\ call.plates = None
    /\ \E r \in Range(metadata) : r.plate = 1 /\ r.well = "B02"
    /\ \E r \in Range(metadata) : r.plate = 2 /\ r.well = "A01"
    /\ Range(prev_metadata) \ Range(metadata) # {}

----------------------------------------------------------------------------
(* filter_out_qc_flagged_images *)

QCFlags == {0, 1, 2}

\* The mask with "|" for "&".
QCMaskMutant(md) ==
    [k \in 1..Len(md) |-> (md[k].blurry = 0) \/ (md[k].saturated = 0)]

\* (self.metadata[blurry_col] == 0) & (self.metadata[saturated_col] == 0)
QCMask(md) ==
    [k \in 1..Len(md) |-> (md[k].blurry = 0) /\ (md[k].saturated = 0)]

\* DataFrame.loc[mask]: the rows whose mask entry is True, in table order.
RECURSIVE LocMask(_, _)
LocMask(md, mask) ==
    IF md = <<>> THEN <<>>
    ELSE (IF Head(mask) THEN <<Head(md)>> ELSE <<>>)
         \o LocMask(Tail(md), Tail(mask))

FilterOutQcFlaggedImages ==
    /\ metadata' = LocMask(metadata, QCMask(metadata))
    /\ prev_metadata' = metadata
    /\ call' = [op |-> "filter_out_qc_flagged_images"]
    /\ err' = "none"
    /\ UNCHANGED <<cp_vars, seg_vars, outside_pre>>

QCTables ==
    {Indexed(t) : t \in SeqsUpTo(
        {Row(0, 1, "A01", DefaultRaw, NoCol, bl, sat) : bl \in QCFlags, sat \in QCFlags},
        MaxRows)}

InitQC ==
    /\ metadata \in QCTables
    /\ prev_metadata = metadata
    /\ call = NoCall
    /\ err = "none"
    /\ IdleCopy
    /\ IdleSeg
    /\ IdleDs

NextQC == FilterOutQcFlaggedImages

SpecQC == InitQC /\ [][NextQC]_vars

\* Table t holds its rows in the relative order they have in table u.
SameOrder(t, u) ==
    \A j, k \in 1..Len(t) :
        j < k => \E a, b \in 1..Len(u) : a < b /\ u[a] = t[j] /\ u[b] = t[k]

\* C5: after filter_out_qc_flagged_images the table holds exactly the prior
\* rows with blurry = 0 and saturated = 0, each once, in their prior order.
C5_QCFilterExact ==
    call.op = "filter_out_qc_flagged_images" =>
        LET clean == {r \in Range(prev_metadata) : r.blurry = 0 /\ r.saturated = 0}
        IN  /\ Range(metadata) = clean
            /\ Len(metadata) = Cardinality(clean)
            /\ SameOrder(metadata, prev_metadata)

\* Blurry flags [0, 0, 1] with every saturated flag 0 leave the first two rows.
C5_Witness ==
    /\ call.op = "filter_out_qc_flagged_images"
    /\ Len(prev_metadata) = 3
    /\ [k \in 1..3 |-> prev_metadata[k].blurry] = <<0, 0, 1>>
    /\ \A k \in 1..3 : prev_metadata[k].saturated = 0
    /\ metadata = SubSeq(prev_metadata, 1, 2)

----------------------------------------------------------------------------
(* Python strings *)

\* s[a:b]
Slice(s, a, b) == SubSeq(s, a + 1, b)

RECURSIVE StrIndexFrom(_, _, _)
StrIndexFrom(s, c, k) ==
    IF k >= Len(s) THEN -1
    ELSE IF s[k + 1] = c THEN k ELSE StrIndexFrom(s, c, k + 1)

\* s.rindex(c): the highest position of c in s.
RECURSIVE StrRIndexFrom(_, _, _)
StrRIndexFrom(s, c, k) ==
    IF k < 0 THEN -1
    ELSE IF s[k + 1] = c THEN k ELSE StrRIndexFrom(s, c, k - 1)

StrRIndex(s, c) == StrRIndexFrom(s, c, Len(s) - 1)

\* s.index(c): the lowest position of c in s; -1 stands for the ValueError
\* that str.index raises when c does not occur.
StrIndex(s, c) == StrIndexFrom(s, c, 0)

----------------------------------------------------------------------------
(* add_image_illumination_col *)

RawNames ==
    { <<"a", ".", "t">>, <<"a", ".", "b", ".", "t">>, <<".", "t">>, <<"a", "b">> }

Posfixes == { <<"_", "i">>, <<>>, <<".", "c">> }

OldIllum == <<"o", ".", "t">>

\* Lines 51-54: one pass of the loop body, for a name that has a ".".
IllumCorrectedName(name, posfix) ==
    LET idx == StrIndex(name, ".")
    IN  Slice(name, 0, idx) \o posfix \o Slice(name, idx, Len(name))

\* The position of the first row whose name makes str.index raise, or 0.
RECURSIVE FirstFailing(_, _)
FirstFailing(md, k) ==
    IF k > Len(md) THEN 0
    ELSE IF StrIndex(md[k].raw, ".") = -1 THEN k ELSE FirstFailing(md, k + 1)

\* The column assigned row by row inside the loop: the rows before the
\* failing one would be written.
IllumTableMutant(md, posfix) ==
    LET f == FirstFailing(md, 1)
    IN  [k \in 1..Len(md) |->
            IF f = 0 \/ k < f
            THEN [md[k] EXCEPT !.illum = IllumCorrectedName(md[k].raw, posfix)]
            ELSE md[k]]

\* The table the call leaves: the column is assigned once, after the loop
\* (line 56), so a ValueError raised in the loop leaves the table untouched.
IllumTable(md, posfix) ==
    IF FirstFailing(md, 1) # 0 THEN md
    ELSE [k \in 1..Len(md) |->
            [md[k] EXCEPT !.illum = IllumCorrectedName(md[k].raw, posfix)]]

AddImageIlluminationCol(posfix) ==
    /\ metadata' = IllumTable(metadata, posfix)
    /\ err' = IF FirstFailing(metadata, 1) # 0 THEN "ValueError" ELSE "none"
    /\ prev_metadata' = metadata
    /\ call' = [op |-> "add_image_illumination_col", posfix |-> posfix]
    /\ UNCHANGED <<cp_vars, seg_vars, outside_pre>>

\* The illumination column is absent from the CSV, or present with a value.
IllumTables ==
    {Indexed(t) : t \in UNION { SeqsUpTo(
        {Row(0, 1, "A01", raw, old, 0, 0) : raw \in RawNames}, MaxRows)
        : old \in {NoCol, OldIllum} }}

InitIllum ==
    /\ metadata \in IllumTables
    /\ prev_metadata = metadata
    /\ call = NoCall
    /\ err = "none"
    /\ IdleCopy
    /\ IdleSeg
    /\ IdleDs

NextIllum == \E posfix \in Posfixes : AddImageIlluminationCol(posfix)

SpecIllum == InitIllum /\ [][NextIllum]_vars

HasDot(s) == \E k \in 1..Len(s) : s[k] = "."

\* The number of characters of s before its first ".".
StemLen(s) ==
    CHOOSE n \in 0..(Len(s) - 1) :
        s[n + 1] = "." /\ \A j \in 1..n : s[j] # "."

C7_IllumFailureLeavesTable ==
    (call.op = "add_image_illumination_col"
        /\ \E k \in 1..Len(prev_metadata) : ~HasDot(prev_metadata[k].raw)) =>
        /\ err = "ValueError"
        /\ metadata = prev_metadata

\* A failed call on a table whose first row has a "." and whose second has none.
C7_Witness ==
    /\ call.op = "add_image_illumination_col"
    /\ err = "ValueError"
    /\ Len(prev_metadata) >= 2
    /\ HasDot(prev_metadata[1].raw)
    /\ ~HasDot(prev_metadata[2].raw)
    /\ metadata[1].illum = prev_metadata[1].illum

----------------------------------------------------------------------------
(* save_filtered_images *)

CopyNames == { <<"a", ".", "t">>, <<"b", ".", "t">> }

\* Lines 96-109 for row i (0-based): the plate directory and the file name.
CopyPath(md, i) == <<md[i + 1].plate, md[i + 1].illum>>

\* Lines 91-95: the output directory is made and the loop entered.
SaveFilteredImages ==
    /\ cp_pc = "idle"
    /\ cp_pc' = "loop"
    /\ cp_i' = 0
    /\ prev_metadata' = metadata
    /\ call' = [op |-> "save_filtered_images"]
    /\ err' = "none"
    /\ UNCHANGED <<metadata, src_files, out_files, log, seg_vars, outside_pre>>

\* Lines 96-112: copyfile finds the source and writes the destination.
CopyRowDone ==
    /\ cp_pc = "loop"
    /\ cp_i < Len(metadata)
    /\ CopyPath(metadata, cp_i) \in src_files
    /\ out_files' = out_files \cup {CopyPath(metadata, cp_i)}
    /\ cp_i' = cp_i + 1
    /\ UNCHANGED <<cur_vars, src_files, log, cp_pc, seg_vars, outside_pre>>

\* The copy without the try/except: the error would end the call.
CopyRowMissingMutant ==
    /\ cp_pc = "loop"
    /\ cp_i < Len(metadata)
    /\ CopyPath(metadata, cp_i) \notin src_files
    /\ cp_pc' = "raised"
    /\ err' = "FileNotFoundError"
    /\ UNCHANGED <<metadata, prev_metadata, call, src_files, out_files, log, cp_i, seg_vars, outside_pre>>

\* Lines 111-114: copyfile raises FileNotFoundError before it opens the
\* destination; the handler logs the error and the loop goes on.
CopyRowMissing ==
    /\ cp_pc = "loop"
    /\ cp_i < Len(metadata)
    /\ CopyPath(metadata, cp_i) \notin src_files
    /\ log' = Append(log, CopyPath(metadata, cp_i))
    /\ cp_i' = cp_i + 1
    /\ UNCHANGED <<cur_vars, src_files, out_files, cp_pc, seg_vars, outside_pre>>

\* Lines 115-117: the loop is over and the call returns.
SaveFilteredReturn ==
    /\ cp_pc = "loop"
    /\ cp_i = Len(metadata)
    /\ cp_pc' = "done"
    /\ UNCHANGED <<cur_vars, src_files, out_files, log, cp_i, seg_vars, outside_pre>>

CopyTables ==
    {Indexed(t) : t \in SeqsUpTo(
        {Row(0, p, "A01", DefaultRaw, ill, 0, 0) : p \in Plates, ill \in CopyNames},
        MaxRows)}

InitCopy ==
    /\ metadata \in CopyTables
    /\ prev_metadata = metadata
    /\ call = NoCall
    /\ err = "none"
    /\ src_files \in SUBSET (Plates \X CopyNames)
    /\ out_files = {}
    /\ log = <<>>
    /\ cp_pc = "idle"
    /\ cp_i = 0
    /\ IdleSeg
    /\ IdleDs

NextCopy ==
    \/ SaveFilteredImages
    \/ CopyRowDone
    \/ CopyRowMissing
    \/ SaveFilteredReturn

SpecCopy == InitCopy /\ [][NextCopy]_vars

\* The rows of table md at positions 1..n whose source file is (not) there.
RowsWithSource(md, n) == {k \in 1..n : CopyPath(md, k - 1) \in src_files}
RowsWithoutSource(md, n) == {k \in 1..n : CopyPath(md, k - 1) \notin src_files}

\* C8: save_filtered_images never raises on a missing source file and
\* leaves the table alone; when it returns, the files under filtered/ are
\* exactly the <plate>/<file name> of the rows whose source exists, and each
\* row whose source is missing was logged once and nothing was copied for it.
C8_CopySkipsMissingAndContinues ==
    call.op = "save_filtered_images" =>
        /\ err = "none"
        /\ cp_pc # "raised"
        /\ metadata = prev_metadata
        /\ cp_pc = "done" =>
            LET n == Len(metadata)
            IN  /\ out_files = {CopyPath(metadata, k - 1) : k \in RowsWithSource(metadata, n)}
                /\ Len(log) = Cardinality(RowsWithoutSource(metadata, n))
                /\ Range(log) = {CopyPath(metadata, k - 1) : k \in RowsWithoutSource(metadata, n)}
                /\ Range(log) \cap out_files = {}

\* A finished call on three rows where the middle row's source was missing and
\* the rows before and after it were copied.
C8_Witness ==
    /\ cp_pc = "done"
    /\ Len(metadata) = 3
    /\ CopyPath(metadata, 1) \notin src_files
    /\ log = <<CopyPath(metadata, 1)>>
    /\ CopyPath(metadata, 0) \in out_files
    /\ CopyPath(metadata, 2) \in out_files

----------------------------------------------------------------------------
(* segment_all_images_given_outlines *)

\* The image rows: row k holds the k-th image, whose illumination-corrected
\* file name has a "." (as add_image_illumination_col makes it), and the
\* outline file of that image. Every second name has two dots.
Letters == <<"a", "b", "c", "d", "e">>

ImageName(k) ==
    IF k % 2 = 1 THEN <<Letters[k], ".", "t">> ELSE <<Letters[k], ".", "c", ".", "t">>

OutlineName(k) == <<Letters[k], ".", "o">>

SegRow(k) ==
    [idx |-> k - 1, plate |-> 1, well |-> "A01", raw |-> DefaultRaw,
     illum |-> ImageName(k), blurry |-> 0, saturated |-> 0, outline |-> OutlineName(k)]

SegTables == {[k \in 1..n |-> SegRow(k)] : n \in 0..MaxImages}

\* The files on disk: all of them, or all but those of one image, of which
\* the intensity file, the outline file or both are missing.
SegFileSystems(n) ==
    LET imgs == {<<1, ImageName(k)>> : k \in 1..n}
        outs == {<<1, OutlineName(k)>> : k \in 1..n}
    IN  {[src |-> imgs, outline |-> outs]} \cup
        UNION {{[src |-> imgs \ {<<1, ImageName(k)>>}, outline |-> outs],
                [src |-> imgs, outline |-> outs \ {<<1, OutlineName(k)>>}],
                [src |-> imgs \ {<<1, ImageName(k)>>},
                 outline |-> outs \ {<<1, OutlineName(k)>>}]} : k \in 1..n}

\* Region properties. Eccentricity and solidity are fractions in the code;
\* only their order against the threshold matters, so they are integers here.
Areas == {1, 2, 3}
Eccentricities == {1, 2}
Solidities == {2, 3}
Extents == {1, 2}

MinAreaArgs == {1, 2}
ThresholdArgs == {None, Some(2)}

Thresholds ==
    [min_area : MinAreaArgs, max_area : ThresholdArgs, max_bbarea : ThresholdArgs,
     max_eccentricity : ThresholdArgs, min_solidity : ThresholdArgs]

\* The label images get_label_image_from_outline can return, with up to two
\* components: label k (1, 2, ...) is a component of li[k] pixels.
Labels == {1, 2}

LabelImages == UNION {[1..n -> Areas] : n \in {0} \cup Labels}

Components(li) == [k \in 1..Len(li) |-> [label |-> k, area |-> li[k]]]

\* Whether the label image has pixels labelled 0. The boundary pixels of the
\* outline separate the components and belong to none, and an image without
\* a component is all background: there are such pixels.
Backgrounds(li) == {TRUE}

\* Lines 157-159: len(np.unique(label_image)) counts the distinct values of
\* the label image, the background value 0 among them when it occurs.
NpUniqueLen(cs, background) == Len(cs) + (IF background THEN 1 ELSE 0)

\* A removal that also drops the components of exactly min_size pixels.
RemoveSmallObjectsMutant(cs, min_size) == SelectSeq(cs, LAMBDA c : c.area > min_size)

\* skimage's remove_small_objects: the components smaller than min_size go,
\* the others keep their labels.
RemoveSmallObjects(cs, min_size) == SelectSeq(cs, LAMBDA c : c.area >= min_size)

\* The filter with non-strict comparisons.
RegionFilterMutant(r, t) ==
    /\ (IF t.max_area.some THEN r.area <= t.max_area.val ELSE TRUE)
    /\ (IF t.max_eccentricity.some
        THEN r.eccentricity <= t.max_eccentricity.val ELSE TRUE)
    /\ (IF t.max_bbarea.some THEN r.width * r.length <= t.max_bbarea.val ELSE TRUE)
    /\ (IF t.min_solidity.some THEN r.solidity >= t.min_solidity.val ELSE TRUE)

\* Lines 172-180: each threshold is "is None or" a strict comparison.
RegionFilter(r, t) ==
    /\ (IF t.max_area.some THEN r.area < t.max_area.val ELSE TRUE)
    /\ (IF t.max_eccentricity.some
        THEN r.eccentricity < t.max_eccentricity.val ELSE TRUE)
    /\ (IF t.max_bbarea.some THEN r.width * r.length < t.max_bbarea.val ELSE TRUE)
    /\ (IF t.min_solidity.some THEN r.solidity > t.min_solidity.val ELSE TRUE)

Digit == <<"0", "1", "2", "3", "4", "5", "6", "7", "8", "9">>

\* "{}".format(n) for n >= 0
RECURSIVE Decimal(_)
Decimal(n) ==
    IF n < 10 THEN <<Digit[n + 1]>> ELSE Decimal(n \div 10) \o <<Digit[(n % 10) + 1]>>

\* A crop name that does not encode the label.
CropFileNameMutant(image_file_name, label) ==
    LET idx == StrIndex(image_file_name, ".")
    IN  Slice(image_file_name, 0, idx) \o <<"_">> \o Decimal(Len(image_file_name))
            \o Slice(image_file_name, idx, Len(image_file_name))

\* Lines 165-166 and 184-187: fname_start + "_<label>" + fname_ending.
CropFileName(image_file_name, label) ==
    LET idx == StrIndex(image_file_name, ".")
    IN  Slice(image_file_name, 0, idx) \o <<"_">> \o Decimal(label)
            \o Slice(image_file_name, idx, Len(image_file_name))

\* Lines 192-195: the source row with the file name replaced by the crop's.
\* src (the position of the source row) is history.
NucleusRow(i, row, crop_name) ==
    [src |-> i, plate |-> row.plate, well |-> row.well, illum |-> crop_name]

PyMax(a, b) == IF a >= b THEN a ELSE b

\* The pad size without the + 1.
PadSizeMutant(mw, ml) == Some(<<mw, ml>>)

\* Line 252.
PadSize(mw, ml) == Some(<<mw + 1, ml + 1>>)

ImagePath(md, i) == <<md[i + 1].plate, md[i + 1].illum>>
OutlinePath(md, i) == <<md[i + 1].plate, md[i + 1].outline>>

\* Lines 130-140: the locals are set up and the image loop entered.
SegmentAllImagesGivenOutlines(t) ==
    /\ seg_pc = "idle"
    /\ seg_pc' = "loop"
    /\ thr' = t
    /\ seg_i' = 0
    /\ nuclei_metadata' = <<>>
    /\ max_width' = 0
    /\ max_length' = 0
    /\ prev_metadata' = metadata
    /\ call' = [op |-> "segment_all_images_given_outlines"]
    /\ err' = "none"
    /\ image_metadata' = [k \in 1..Len(metadata) |-> None]
    /\ UNCHANGED <<metadata, cp_vars, outline_files, crop_files, regions, region,
                   accepted, shapes, pad_size, processed_image_metadata, label_image,
                   outside_pre>>

\* Lines 141-153: both files are read and the label image is made.
LoadImage ==
    /\ seg_pc = "loop"
    /\ seg_i < Len(metadata)
    /\ ImagePath(metadata, seg_i) \in src_files
    /\ OutlinePath(metadata, seg_i) \in outline_files
    /\ \E li \in LabelImages : \E bg \in Backgrounds(li) :
        label_image' = [components |-> Components(li), background |-> bg]
    /\ seg_pc' = "labelled"
    /\ UNCHANGED <<cur_vars, cp_vars, outline_files, crop_files, seg_i, thr, regions,
                   region, max_width, max_length, nuclei_metadata, accepted, shapes,
                   pad_size, image_metadata, processed_image_metadata, outside_pre>>

\* Lines 155-161: the small objects are removed from the label image, the
\* number of its distinct values is written to the image's row, and
\* regionprops lists the regions left. The label image is not read again.
RemoveSmallAndCount ==
    /\ seg_pc = "labelled"
    /\ LET kept == RemoveSmallObjects(label_image.components, thr.min_area)
           background == label_image.background
                            \/ Len(kept) < Len(label_image.components)
       IN  /\ regions' = kept
           /\ image_metadata' =
                [image_metadata EXCEPT ![seg_i + 1] = Some(NpUniqueLen(kept, background))]
    /\ label_image' = NoLabelImage
    /\ seg_pc' = "regions"
    /\ UNCHANGED <<cur_vars, cp_vars, outline_files, crop_files, seg_i, thr, region,
                   max_width, max_length, nuclei_metadata, accepted, shapes, pad_size,
                   processed_image_metadata, outside_pre>>

\* The read with a handler that logs and goes on to the next image.
LoadImageFailsMutant ==
    /\ seg_pc = "loop"
    /\ seg_i < Len(metadata)
    /\ \/ ImagePath(metadata, seg_i) \notin src_files
       \/ OutlinePath(metadata, seg_i) \notin outline_files
    /\ log' = Append(log, ImagePath(metadata, seg_i))
    /\ seg_i' = seg_i + 1
    /\ UNCHANGED <<cur_vars, src_files, out_files, cp_pc, cp_i, outline_files,
                   crop_files, seg_pc, thr, regions, region, max_width, max_length,
                   nuclei_metadata, accepted, shapes, pad_size, count_vars, outside_pre>>

\* Lines 145 and 151: tifffile.imread or skimage's imread raises
\* FileNotFoundError, which nothing catches.
LoadImageFails ==
    /\ seg_pc = "loop"
    /\ seg_i < Len(metadata)
    /\ \/ ImagePath(metadata, seg_i) \notin src_files
       \/ OutlinePath(metadata, seg_i) \notin outline_files
    /\ seg_pc' = "raised"
    /\ err' = "FileNotFoundError"
    /\ UNCHANGED <<metadata, prev_metadata, call, cp_vars, outline_files, crop_files,
                   seg_i, thr, regions, region, max_width, max_length,
                   nuclei_metadata, accepted, shapes, pad_size, count_vars, outside_pre>>

\* The next region of the list, with the properties regionprops computes.
NextRegions ==
    { [label |-> Head(regions).label, area |-> Head(regions).area,
       eccentricity |-> e, solidity |-> s, width |-> w, length |-> l] :
        e \in Eccentricities, s \in Solidities, w \in Extents, l \in Extents }

\* Lines 162-196, for a region that passes the filter.
RegionAccepted ==
    /\ seg_pc = "regions"
    /\ regions # <<>>
    /\ \E r \in NextRegions :
        LET name == CropFileName(metadata[seg_i + 1].illum, r.label)
        IN  /\ RegionFilter(r, thr)
            /\ region' = r
            /\ max_width' = PyMax(max_width, r.width)
            /\ max_length' = PyMax(max_length, r.length)
            /\ crop_files' = crop_files \cup {<<metadata[seg_i + 1].plate, name>>}
            /\ nuclei_metadata' =
                Append(nuclei_metadata, NucleusRow(seg_i, metadata[seg_i + 1], name))
            /\ accepted' = accepted \cup {<<seg_i, r.label>>}
            /\ shapes' = shapes \cup {<<r.width, r.length>>}
    /\ regions' = Tail(regions)
    /\ UNCHANGED <<cur_vars, cp_vars, outline_files, seg_pc, seg_i, thr, pad_size,
                   image_metadata, processed_image_metadata, label_image,
                   outside_pre>>

\* Lines 162-180, for a region that fails the filter: nothing is written.
RegionRejected ==
    /\ seg_pc = "regions"
    /\ regions # <<>>
    /\ \E r \in NextRegions :
        /\ ~RegionFilter(r, thr)
        /\ region' = r
    /\ regions' = Tail(regions)
    /\ UNCHANGED <<cur_vars, cp_vars, outline_files, crop_files, seg_pc, seg_i, thr,
                   max_width, max_length, nuclei_metadata, accepted, shapes, pad_size,
                   image_metadata, processed_image_metadata, label_image,
                   outside_pre>>

\* Line 162: the region loop is over; line 140: the next image. The loop
\* variable region is not read again before it is reassigned.
NextImage ==
    /\ seg_pc = "regions"
    /\ regions = <<>>
    /\ seg_pc' = "loop"
    /\ seg_i' = seg_i + 1
    /\ region' = NoRegion
    /\ UNCHANGED <<cur_vars, cp_vars, outline_files, crop_files, thr, regions,
                   max_width, max_length, nuclei_metadata, accepted, shapes, pad_size,
                   image_metadata, processed_image_metadata, label_image, outside_pre>>

\* Lines 197-262: the nucleus table is built and the results are stored.
SegmentReturn ==
    /\ seg_pc = "loop"
    /\ seg_i = Len(metadata)
    /\ nuclei_metadata # <<>>
    /\ pad_size' = PadSize(max_width, max_length)
    /\ processed_image_metadata' = Some(image_metadata)
    /\ seg_pc' = "done"
    /\ UNCHANGED <<cur_vars, cp_vars, outline_files, crop_files, seg_i, thr, regions,
                   region, max_width, max_length, nuclei_metadata, accepted, shapes, image_metadata, label_image,
                   outside_pre>>

\* Line 197: pd.DataFrame(np.array([]), columns=metadata_cols) raises
\* ValueError when no region was accepted in the whole run.
SegmentEmptyTable ==
    /\ seg_pc = "loop"
    /\ seg_i = Len(metadata)
    /\ nuclei_metadata = <<>>
    /\ seg_pc' = "raised"
    /\ err' = "ValueError"
    /\ UNCHANGED <<metadata, prev_metadata, call, cp_vars, outline_files, crop_files,
                   seg_i, thr, regions, region, max_width, max_length,
                   nuclei_metadata, accepted, shapes, pad_size, count_vars, outside_pre>>

InitSeg ==
    /\ metadata \in SegTables
    /\ prev_metadata = metadata
    /\ call = NoCall
    /\ err = "none"
    /\ \E fs \in SegFileSystems(MaxImages) :
        src_files = fs.src /\ outline_files = fs.outline
    /\ out_files = {}
    /\ log = <<>>
    /\ cp_pc = "idle"
    /\ cp_i = 0
    /\ crop_files = {}
    /\ seg_pc = "idle"
    /\ seg_i = 0
    /\ thr = None
    /\ regions = <<>>
    /\ region = NoRegion
    /\ max_width = 0
    /\ max_length = 0
    /\ nuclei_metadata = <<>>
    /\ accepted = {}
    /\ shapes = {}
    /\ pad_size = None
    /\ image_metadata = <<>>
    /\ processed_image_metadata = None
    /\ label_image = NoLabelImage
    /\ IdlePad
    /\ IdleDs

\* A run of segment_all_images_given_outlines with thresholds drawn from T.
NextSegWith(T) ==
    \/ \E t \in T : SegmentAllImagesGivenOutlines(t)
    \/ LoadImage
    \/ LoadImageFails
    \/ RemoveSmallAndCount
    \/ RegionAccepted
    \/ RegionRejected
    \/ NextImage
    \/ SegmentReturn
    \/ SegmentEmptyTable

\* Runs over up to MaxImages images, any of whose files may be missing, with
\* these threshold settings: none set, all set, max_bbarea alone, and
\* max_area with min_solidity.
RunThresholds ==
    { [min_area |-> 1, max_area |-> None, max_bbarea |-> None,
       max_eccentricity |-> None, min_solidity |-> None],
      [min_area |-> 2, max_area |-> Some(2), max_bbarea |-> Some(2),
       max_eccentricity |-> Some(2), min_solidity |-> Some(2)],
      [min_area |-> 1, max_area |-> None, max_bbarea |-> Some(2),
       max_eccentricity |-> None, min_solidity |-> None],
      [min_area |-> 1, max_area |-> Some(2), max_bbarea |-> None,
       max_eccentricity |-> None, min_solidity |-> Some(2)] }

NextSeg == NextSegWith(RunThresholds)

SpecSeg == InitSeg /\ [][NextSeg]_vars

\* Runs over one image, with every combination of thresholds set and unset.
InitFilter ==
    /\ metadata = <<SegRow(1)>>
    /\ prev_metadata = metadata
    /\ call = NoCall
    /\ err = "none"
    /\ \E fs \in SegFileSystems(1) : src_files = fs.src /\ outline_files = fs.outline
    /\ out_files = {}
    /\ log = <<>>
    /\ cp_pc = "idle"
    /\ cp_i = 0
    /\ crop_files = {}
    /\ seg_pc = "idle"
    /\ seg_i = 0
    /\ thr = None
    /\ regions = <<>>
    /\ region = NoRegion
    /\ max_width = 0
    /\ max_length = 0
    /\ nuclei_metadata = <<>>
    /\ accepted = {}
    /\ shapes = {}
    /\ pad_size = None
    /\ image_metadata = <<>>
    /\ processed_image_metadata = None
    /\ label_image = NoLabelImage
    /\ IdlePad
    /\ IdleDs

NextFilter == NextSegWith(Thresholds)

SpecFilter == InitFilter /\ [][NextFilter]_vars

InRun == call.op = "segment_all_images_given_outlines"

\* The nucleus rows that came from the image of row i (0-based).
RowsOf(i) == {k \in 1..Len(nuclei_metadata) : nuclei_metadata[k].src = i}

\* The name a crop of the image file `name` must have for region `label`:
\* the stem, "_", the label in decimal, and the rest from the first ".".
ExpectedCropName(name, label) ==
    Slice(name, 0, StemLen(name)) \o <<"_">> \o Decimal(label)
        \o Slice(name, StemLen(name), Len(name))

\* A threshold that is set passes when the value is strictly on its good side.
C1_Under(v, t) == IF t.some THEN v < t.val ELSE TRUE
C1_Over(v, t) == IF t.some THEN v > t.val ELSE TRUE

\* C1: the region just visited has its crop on disk and its row in the
\* nucleus list if and only if every threshold that is set passes strictly:
\* area < max_area, eccentricity < max_eccentricity, width * length <
\* max_bbarea, solidity > min_solidity. None passes; equality rejects.
C1_AcceptedIffAllThresholdsPass ==
    (seg_pc = "regions" /\ region # NoRegion) =>
        LET row == metadata[seg_i + 1]
            name == ExpectedCropName(row.illum, region.label)
            written ==
                /\ <<row.plate, name>> \in crop_files
                /\ \E k \in RowsOf(seg_i) : nuclei_metadata[k].illum = name
                /\ <<seg_i, region.label>> \in accepted
            nothing ==
                /\ <<row.plate, name>> \notin crop_files
                /\ \A k \in RowsOf(seg_i) : nuclei_metadata[k].illum # name
                /\ <<seg_i, region.label>> \notin accepted
            passes ==
                /\ C1_Under(region.area, thr.max_area)
                /\ C1_Under(region.eccentricity, thr.max_eccentricity)
                /\ C1_Under(region.width * region.length, thr.max_bbarea)
                /\ C1_Over(region.solidity, thr.min_solidity)
        IN  IF passes THEN written ELSE nothing

\* A region whose area equals max_area, with no other threshold set, was
\* visited and nothing was written for it.
C1_Witness ==
    /\ seg_pc = "regions"
    /\ region # NoRegion
    /\ thr.max_area = Some(2)
    /\ thr.max_eccentricity = None
    /\ thr.max_bbarea = None
    /\ thr.min_solidity = None
    /\ region.area = 2
    /\ <<seg_i, region.label>> \notin accepted
    /\ accepted # {}

SetMax(S) == IF S = {} THEN 0 ELSE CHOOSE m \in S : \A x \in S : x <= m

\* C2: the running maxima are those of the accepted regions alone, and after
\* a completed run pad_size is (max accepted width + 1, max accepted length
\* + 1), so every accepted region is strictly smaller than pad_size in both
\* directions.
C2_PadSizeExceedsAcceptedRegions ==
    InRun =>
        /\ seg_pc # "idle" => max_width = SetMax({sh[1] : sh \in shapes})
        /\ seg_pc # "idle" => max_length = SetMax({sh[2] : sh \in shapes})
        /\ seg_pc = "done" =>
            /\ pad_size = Some(<<SetMax({sh[1] : sh \in shapes}) + 1,
                                 SetMax({sh[2] : sh \in shapes}) + 1>>)
            /\ \A sh \in shapes :
                sh[1] < pad_size.val[1] /\ sh[2] < pad_size.val[2]
        /\ seg_pc # "done" => pad_size = None

\* A completed run over two images whose accepted regions were 2 x 1 and
\* 1 x 2, so that pad_size is (3, 3).
C2_Witness ==
    /\ seg_pc = "done"
    /\ Len(metadata) = 2
    /\ shapes = {<<2, 1>>, <<1, 2>>}
    /\ pad_size = Some(<<3, 3>>)
    /\ Cardinality(accepted) >= 2

\* C3: in every image the rows appended are as many as the regions the
\* filter accepted, each row's crop file is on disk, and the file names of the
\* rows of one image (which differ only in the label they encode) are pairwise
\* distinct; in all, the list has one row per accepted region.
C3_OneRowPerAcceptedRegion ==
    InRun =>
        /\ \A i \in 0..(Len(metadata) - 1) :
            /\ Cardinality(RowsOf(i)) = Cardinality({a \in accepted : a[1] = i})
            /\ \A j, k \in RowsOf(i) :
                j # k => nuclei_metadata[j].illum # nuclei_metadata[k].illum
            /\ \A k \in RowsOf(i) :
                <<nuclei_metadata[k].plate, nuclei_metadata[k].illum>> \in crop_files
        /\ Len(nuclei_metadata) = Cardinality(accepted)
        /\ \A k \in 1..Len(nuclei_metadata) :
            nuclei_metadata[k].src \in 0..(Len(metadata) - 1)

\* A completed run in which the first image gave two rows and the second
\* gave one, for its label 2, its label 1 having been rejected by the filter.
C3_Witness ==
    /\ seg_pc = "done"
    /\ Len(metadata) = 2
    /\ Cardinality(RowsOf(0)) = 2
    /\ thr.min_area = 1
    /\ \E k \in 1..Len(nuclei_metadata) :
        /\ RowsOf(1) = {k}
        /\ nuclei_metadata[k].illum = <<"b", "_", "2", ".", "c", ".", "t">>

FilesMissing(i) ==
    \/ ImagePath(metadata, i) \notin src_files
    \/ OutlinePath(metadata, i) \notin outline_files

\* C9: the run never goes past an image one of whose files is missing: it
\* ends there with the FileNotFoundError, storing no result, and no row and
\* no crop exists for that image.
C9_MissingFileStopsRun ==
    InRun =>
        /\ \A j \in 0..(seg_i - 1) : ~FilesMissing(j)
        /\ \A j \in 0..(Len(metadata) - 1) :
            FilesMissing(j) =>
                /\ RowsOf(j) = {}
                /\ \A a \in accepted : a[1] # j
                /\ \A l \in Labels :
                    <<metadata[j + 1].plate, ExpectedCropName(metadata[j + 1].illum, l)>>
                        \notin crop_files
        /\ (seg_pc = "raised" /\ err = "FileNotFoundError") =>
            /\ seg_i < Len(metadata)
            /\ FilesMissing(seg_i)
            /\ pad_size = None
            /\ processed_image_metadata = None
            /\ \A k \in 1..Len(nuclei_metadata) : nuclei_metadata[k].src < seg_i
        /\ (seg_pc = "loop" /\ seg_i < Len(metadata) /\ FilesMissing(seg_i)) =>
            ~ENABLED LoadImage
        /\ seg_pc = "raised" => ~ENABLED NextSeg

\* The run stopped at the second image, whose outline file is missing while
\* its intensity file exists; the first image's rows had been appended.
C9_Witness ==
    /\ seg_pc = "raised"
    /\ err = "FileNotFoundError"
    /\ seg_i = 1
    /\ ImagePath(metadata, 1) \in src_files
    /\ OutlinePath(metadata, 1) \notin outline_files
    /\ RowsOf(0) # {}
    /\ RowsOf(1) = {}

\* C18: the nuclei count written to an image's row is the number of regions
\* left after the small objects were removed, the regions the filter is then
\* given.
C18_NucleiCountIsCandidateCount ==
    (seg_pc = "regions" /\ region = NoRegion) =>
        image_metadata[seg_i + 1] = Some(Len(regions))

\* The labels of a sequence of components.
LabelsIn(cs) == {cs[k].label : k \in 1..Len(cs)}

\* C19: the components smaller than min_area are removed before any region
\* is visited, and the others are all listed, whatever the thresholds; while
\* regions are listed the loop goes on, each step gives the first of them to
\* the filter, and only that region can get a crop and a nucleus row.
C19_MinAreaDiscardPrecedesFilter ==
    [][/\ (seg_pc = "labelled" /\ seg_pc' = "regions") =>
            /\ LabelsIn(regions') =
                {c.label : c \in {x \in Range(label_image.components) :
                                    x.area >= thr.min_area}}
            /\ \A k \in 1..Len(regions') :
                /\ regions'[k] \in Range(label_image.components)
                /\ \A j \in 1..Len(regions') : j # k => regions'[j].label # regions'[k].label
            /\ accepted' = accepted
            /\ crop_files' = crop_files
       /\ (seg_pc = "regions" /\ regions # <<>>) =>
            /\ seg_pc' = "regions"
            /\ regions' = Tail(regions)
            /\ region'.label = Head(regions).label
            /\ region'.area = Head(regions).area
            /\ accepted' \subseteq accepted \cup {<<seg_i, Head(regions).label>>}
            /\ crop_files' \subseteq crop_files \cup
                {<<metadata[seg_i + 1].plate,
                   ExpectedCropName(metadata[seg_i + 1].illum, Head(regions).label)>>}
            /\ Len(nuclei_metadata') <= Len(nuclei_metadata) + 1
       /\ (seg_pc = "regions" /\ regions = <<>>) =>
            /\ accepted' = accepted
            /\ crop_files' = crop_files
            /\ nuclei_metadata' = nuclei_metadata]_vars

\* min_area = 2 on an image with two components: the first, of one pixel,
\* was removed, and the second, of two pixels, was visited and accepted.
C19_Witness ==
    /\ seg_pc = "regions"
    /\ thr.min_area = 2
    /\ regions = <<>>
    /\ region # NoRegion
    /\ region.label = 2
    /\ region.area = 2
    /\ image_metadata[seg_i + 1] = Some(2)
    /\ accepted = {<<seg_i, 2>>}

----------------------------------------------------------------------------
(* TorchNucleiImageDataset.__init__ *)

ClassNames == {"A", "B", "EMPTY"}

\* A row of the metadata file: its index label (index_col=0), its class in
\* label_col, its plate and its image file.
SampleRow(i, c) == [idx |-> i, label |-> c, plate |-> 1, file |-> <<"n", Digit[i + 1]>>]

MetadataFiles ==
    {[k \in 1..Len(cs) |-> SampleRow(k - 1, cs[k])] : cs \in SeqsUpTo(ClassNames, MaxSamples)}

\* The lists a caller passes as target_list, and None.
TargetLists == {None} \cup {Some(tl) : tl \in SeqsUpTo(ClassNames, 2)}

\* The list used as given.
TargetsWithEmptyMutant(tl) == tl

\* Lines 49-50: target_list += ["EMPTY"] extends the caller's list in place.
TargetsWithEmpty(tl) ==
    IF "EMPTY" \notin Range(tl) THEN tl \o <<"EMPTY">> ELSE tl

\* Lines 51-53: metadata.loc[metadata[label_col].isin(target_list), :]
IsIn(md, tl) == SelectSeq(md, LAMBDA r : r.label \in Range(tl))

\* Lines 47-53: the file is read and, given a target_list, filtered by it.
ReadAndFilterByTargetList ==
    /\ ds_pc = "new"
    /\ target_arg' = target_list
    /\ target_list' =
        IF target_list.some THEN Some(TargetsWithEmpty(target_list.val)) ELSE target_list
    /\ ds_metadata' =
        IF target_list.some
        THEN IsIn(csv_rows, TargetsWithEmpty(target_list.val)) ELSE csv_rows
    /\ filtered' = ds_metadata'
    /\ ds_pc' = "filtered"
    /\ UNCHANGED <<csv_rows, n_control_samples, ds_err, mt_1234, image_locs, labels,
                   le_classes, transform_pipeline, pseudo_rgb, prev_build, outside_ds>>

\* The values n_control_samples takes.
ControlSamples == {None} \cup {Some(n) : n \in 0..2}

\* np.unique sorts: the order of the class names.
ClassOrder == <<"A", "B", "EMPTY">>

\* np.unique(y): the classes present, sorted.
Unique(ls) == SelectSeq(ClassOrder, LAMBDA c : c \in Range(ls))

\* Line 56: the label column.
LabelsOf(md) == [k \in 1..Len(md) |-> md[k].label]

\* Line 57: dict(Counter(labels)).
Counter(ls) == [c \in Range(ls) |-> Cardinality({k \in 1..Len(ls) : ls[k] = c})]

\* The strategy with every class cut to at most n.
TargetNSamplesMutant(ls, n) ==
    [c \in Range(ls) \cup {"EMPTY"} |->
        IF c = "EMPTY" THEN n ELSE IF Counter(ls)[c] > n THEN n ELSE Counter(ls)[c]]

\* The strategy with the request clamped to what the data holds.
TargetNSamplesClamped(ls, n) ==
    [c \in Range(ls) |->
        IF c = "EMPTY" THEN (IF n > Counter(ls)[c] THEN Counter(ls)[c] ELSE n)
        ELSE Counter(ls)[c]]

\* Lines 57-58: every class keeps its count, "EMPTY" is set to n.
TargetNSamples(ls, n) ==
    [c \in Range(ls) \cup {"EMPTY"} |-> IF c = "EMPTY" THEN n ELSE Counter(ls)[c]]

\* imblearn's checks on a dict strategy for under-sampling (reached from
\* lines 59-61): there are samples, every key is a class of the data, and
\* no class is asked for more samples than it has.
StrategyValid(ls, strategy) ==
    /\ Len(ls) > 0
    /\ DOMAIN strategy \subseteq Range(ls)
    /\ \A c \in DOMAIN strategy : strategy[c] <= Counter(ls)[c]

\* np.flatnonzero(y == c): the positions (from 0) of the rows of class c.
FlatNonzero(ls, c) ==
    SelectSeq([k \in 1..Len(ls) |-> k - 1], LAMBDA i : ls[i + 1] = c)

\* What fit_resample asks of its generator: for each class in np.unique
\* order, choice(range(count), size=n_samples, replace=False).
Requests(ls, strategy) ==
    [k \in 1..Len(Unique(ls)) |->
        <<Counter(ls)[Unique(ls)[k]], strategy[Unique(ls)[k]]>>]

\* choice(range(m), size=n, replace=False): n distinct values below m.
Choices(m, n) ==
    {d \in [1..n -> 0..(m - 1)] : \A i, j \in 1..n : i # j => d[i] # d[j]}

\* The answers a generator can give to a sequence of requests.
RECURSIVE AllDraws(_)
AllDraws(reqs) ==
    IF reqs = <<>> THEN {<<>>}
    ELSE {<<h>> \o t : h \in Choices(Head(reqs)[1], Head(reqs)[2]),
                       t \in AllDraws(Tail(reqs))}

\* A generator that is not seeded: any answer, whatever it gave before.
UnseededDraws(reqs) == AllDraws(reqs)

\* Line 60, random_state=1234: fit_resample makes a fresh RandomState(1234),
\* so the same requests are given the same answers every time.
SeededDraws(reqs) ==
    IF \E e \in mt_1234 : e.reqs = reqs
    THEN {e.draws : e \in {x \in mt_1234 : x.reqs = reqs}}
    ELSE AllDraws(reqs)

RECURSIVE Flatten(_)
Flatten(ss) == IF ss = <<>> THEN <<>> ELSE Head(ss) \o Flatten(Tail(ss))

\* fit_resample's idx_under: per class in np.unique order, the positions
\* of the class picked by the class's draw.
FitResample(ls, draws) ==
    Flatten([k \in 1..Len(draws) |->
        [j \in 1..Len(draws[k]) |->
            FlatNonzero(ls, Unique(ls)[k])[draws[k][j] + 1]]])

\* Line 62: metadata.iloc[idc.flatten(), :]
Iloc(md, idc) == [k \in 1..Len(idc) |-> md[idc[k] + 1]]

\* Lines 54-66: without n_control_samples nothing is done; with it the rows
\* are resampled with "EMPTY" set to n_control_samples.
Undersample ==
    /\ ds_pc = "filtered"
    /\ IF ~n_control_samples.some
       THEN /\ ds_metadata' = ds_metadata
            /\ mt_1234' = mt_1234
       ELSE LET ls == LabelsOf(ds_metadata)
                strategy == TargetNSamples(ls, n_control_samples.val)
            IN  /\ StrategyValid(ls, strategy)
                /\ \E draws \in SeededDraws(Requests(ls, strategy)) :
                    /\ ds_metadata' = Iloc(ds_metadata, FitResample(ls, draws))
                    /\ mt_1234' = mt_1234 \cup
                        {[reqs |-> Requests(ls, strategy), draws |-> draws]}
    /\ ds_pc' = "sampled"
    /\ UNCHANGED <<csv_rows, target_list, target_arg, n_control_samples, ds_err,
                   filtered, image_locs, labels, le_classes, transform_pipeline,
                   pseudo_rgb, prev_build, outside_ds>>

\* Lines 59-61: fit_resample raises ValueError, which nothing catches.
UndersampleFails ==
    /\ ds_pc = "filtered"
    /\ n_control_samples.some
    /\ LET ls == LabelsOf(ds_metadata)
       IN  ~StrategyValid(ls, TargetNSamples(ls, n_control_samples.val))
    /\ ds_pc' = "raised"
    /\ ds_err' = "ValueError"
    /\ UNCHANGED <<csv_rows, target_list, target_arg, ds_metadata, n_control_samples,
                   filtered, mt_1234, image_locs, labels, le_classes,
                   transform_pipeline, pseudo_rgb, prev_build, outside_ds>>

\* Lines 91-92: __len__.
DatasetLen == Len(image_locs)

\* The argument image_dir.
image_dir == <<"d">>

\* The transform pipelines a caller passes, and the default of line 106.
Pipelines == {"flip", "crop"}
ToTensor == "ToTensor"

\* src.utils.basic.general.combine_path: the parts joined into one path.
combine_path(parts) == parts[1] \o <<"/">> \o parts[2] \o <<"/">> \o parts[3]

\* Paths built from the first row alone.
ImageLocsMutant(md) ==
    [k \in 1..Len(md) |-> combine_path(<<image_dir, Decimal(md[1].plate), md[1].file>>)]

\* Lines 69-77: np.apply_along_axis(combine_path, 0, [...]) gives one path
\* per column of the 3 x n array: image_dir, the row's plate, the row's file.
ImageLocs(md) ==
    [k \in 1..Len(md) |-> combine_path(<<image_dir, Decimal(md[k].plate), md[k].file>>)]

\* LabelEncoder.fit (line 84): classes_ is the sorted distinct labels.
LabelEncoderFit(ls) == Unique(ls)

\* An encoder with a fixed vocabulary: the position in the list of all classes.
LabelEncoderTransformMutant(classes, ls) ==
    [k \in 1..Len(ls) |-> (CHOOSE i \in 1..Len(ClassOrder) : ClassOrder[i] = ls[k]) - 1]

\* LabelEncoder.transform (line 85): the position of each label in classes_.
LabelEncoderTransform(classes, ls) ==
    [k \in 1..Len(ls) |-> (CHOOSE i \in 1..Len(classes) : classes[i] = ls[k]) - 1]

\* Lines 105-108.
SetTransformPipeline(tp) == IF tp.some THEN tp.val ELSE ToTensor

\* Lines 69-77 on a table without rows: np.apply_along_axis raises
\* ValueError, as there is no column to apply combine_path to.
BuildImageLocsFails ==
    /\ ds_pc = "sampled"
    /\ Len(ds_metadata) = 0
    /\ ds_pc' = "raised"
    /\ ds_err' = "ValueError"
    /\ UNCHANGED <<csv_rows, target_list, target_arg, ds_metadata, n_control_samples,
                   filtered, mt_1234, image_locs, labels, le_classes,
                   transform_pipeline, pseudo_rgb, prev_build, outside_ds>>

\* Lines 69-89: the paths are built and counted against the rows, the labels
\* are encoded, the pipeline and pseudo_rgb are stored.
FinishConstruction(tp, rgb) ==
    /\ ds_pc = "sampled"
    /\ Len(ds_metadata) > 0
    /\ image_locs' = ImageLocs(ds_metadata)
    /\ IF Len(ds_metadata) # Len(ImageLocs(ds_metadata))
       THEN /\ ds_pc' = "raised"
            /\ ds_err' = "RuntimeError"
            /\ UNCHANGED <<labels, le_classes, transform_pipeline, pseudo_rgb>>
       ELSE /\ ds_pc' = "done"
            /\ le_classes' = LabelEncoderFit(LabelsOf(ds_metadata))
            /\ labels' = Some(LabelEncoderTransform(
                            LabelEncoderFit(LabelsOf(ds_metadata)), LabelsOf(ds_metadata)))
            /\ transform_pipeline' = Some(SetTransformPipeline(tp))
            /\ pseudo_rgb' = rgb
            /\ UNCHANGED ds_err
    /\ UNCHANGED <<csv_rows, target_list, target_arg, ds_metadata, n_control_samples,
                   filtered, mt_1234, prev_build, outside_ds>>

\* The lists a caller passes to a second construction: the same list object
\* again, a new list equal to what the first call was given, ["B"], or None.
SecondTargetLists == {target_list, target_arg, None, Some(<<"B">>)}

\* Lines 29-46, a second time: another dataset is constructed from the same
\* metadata file. What the first construction left is kept as history.
Reconstruct(tl, n) ==
    /\ ds_pc \in {"done", "raised"}
    /\ ~prev_build.some
    /\ prev_build' = Some([target_arg |-> target_arg, target_list |-> target_list,
                           n_control_samples |-> n_control_samples,
                           pc |-> ds_pc, err |-> ds_err, metadata |-> ds_metadata,
                           image_locs |-> image_locs, labels |-> labels,
                           le_classes |-> le_classes])
    /\ target_list' = tl
    /\ target_arg' = None
    /\ n_control_samples' = n
    /\ ds_pc' = "new"
    /\ ds_err' = "none"
    /\ ds_metadata' = <<>>
    /\ filtered' = <<>>
    /\ image_locs' = <<>>
    /\ labels' = None
    /\ le_classes' = <<>>
    /\ transform_pipeline' = None
    /\ pseudo_rgb' = FALSE
    /\ UNCHANGED <<csv_rows, mt_1234, outside_ds>>

InitDataset ==
    /\ csv_rows \in MetadataFiles
    /\ target_list \in TargetLists
    /\ target_arg = None
    /\ ds_metadata = <<>>
    /\ ds_pc = "new"
    /\ n_control_samples \in ControlSamples
    /\ ds_err = "none"
    /\ filtered = <<>>
    /\ mt_1234 = {}
    /\ image_locs = <<>>
    /\ labels = None
    /\ le_classes = <<>>
    /\ transform_pipeline = None
    /\ pseudo_rgb = FALSE
    /\ prev_build = None
    /\ IdleViews
    /\ IdleTrain
    /\ metadata = <<>>
    /\ prev_metadata = <<>>
    /\ call = NoCall
    /\ err = "none"
    /\ IdleCopy
    /\ IdleSeg

NextDataset ==
    \/ ReadAndFilterByTargetList
    \/ Undersample
    \/ UndersampleFails
    \/ BuildImageLocsFails
    \/ \E tp \in {None} \cup {Some(x) : x \in Pipelines}, rgb \in BOOLEAN :
        FinishConstruction(tp, rgb)
    \/ \E tl \in SecondTargetLists, n \in {n_control_samples, None} : Reconstruct(tl, n)

SpecDataset == InitDataset /\ [][NextDataset]_vars

\* C10: with a target_list, the rows kept by the filter are exactly the rows
\* of the file whose class is in the list as the caller passed it or is
\* "EMPTY", each once and in file order.
C10_TargetListKeepsListedAndEmpty ==
    (ds_pc = "filtered" /\ target_arg.some) =>
        LET wanted == {r \in Range(csv_rows) :
                          r.label \in Range(target_arg.val) \cup {"EMPTY"}}
        IN  /\ Range(ds_metadata) = wanted
            /\ Len(ds_metadata) = Cardinality(wanted)
            /\ SameOrder(ds_metadata, csv_rows)

\* target_list = ["A"] on a file with classes A, B and EMPTY: the A row
\* and the EMPTY row are kept, the B row is not.
C10_Witness ==
    /\ ds_pc = "filtered"
    /\ target_arg = Some(<<"A">>)
    /\ {r.label : r \in Range(csv_rows)} = {"A", "B", "EMPTY"}
    /\ {r.label : r \in Range(ds_metadata)} = {"A", "EMPTY"}

\* The number of rows of class c in a table.
ClassCount(md, c) == Cardinality({k \in 1..Len(md) : md[k].label = c})

C12_TooManyControlSamplesRaises ==
    /\ (ds_pc \in {"sampled", "done", "raised"} /\ n_control_samples.some
            /\ n_control_samples.val > ClassCount(filtered, "EMPTY")) =>
        /\ ds_pc = "raised"
        /\ ds_err = "ValueError"
        /\ ds_metadata = filtered
        /\ labels = None
        /\ image_locs = <<>>
    /\ (ds_pc \in {"sampled", "done"} /\ n_control_samples.some) =>
        ClassCount(ds_metadata, "EMPTY") >= n_control_samples.val

\* n_control_samples = 2 on a file with one EMPTY row and an A row: the
\* constructor raises.
C12_Witness ==
    /\ ds_pc = "raised"
    /\ ds_err = "ValueError"
    /\ n_control_samples = Some(2)
    /\ ClassCount(filtered, "EMPTY") = 1
    /\ ClassCount(filtered, "A") = 1

\* The integer an encoding with these classes_ gives class c.
CodeOf(classes, c) == (CHOOSE i \in 1..Len(classes) : classes[i] = c) - 1

\* C13: the labels of a constructed dataset are encoded with classes fit on
\* the rows kept after filtering and undersampling: the K distinct classes
\* kept map one to one onto 0..K-1, and decoding a row's integer gives the
\* row's class.
C13_EncodingIsBijectionOnRetainedClasses ==
    ds_pc = "done" =>
        LET kept == {ds_metadata[k].label : k \in 1..Len(ds_metadata)}
            K == Cardinality(kept)
        IN  /\ labels.some
            /\ Len(labels.val) = Len(ds_metadata)
            /\ Len(le_classes) = K
            /\ Range(le_classes) = kept
            /\ {labels.val[k] : k \in 1..Len(labels.val)} = 0..(K - 1)
            /\ \A k \in 1..Len(ds_metadata) :
                /\ labels.val[k] \in 0..(K - 1)
                /\ le_classes[labels.val[k] + 1] = ds_metadata[k].label
            /\ \A j, k \in 1..Len(ds_metadata) :
                (labels.val[j] = labels.val[k]) <=>
                    (ds_metadata[j].label = ds_metadata[k].label)

\* Two constructions from one file with different target_list: class "B" was
\* encoded as 1 by the first and is encoded as 0 by the second.
C13_Witness ==
    /\ ds_pc = "done"
    /\ prev_build.some
    /\ prev_build.val.pc = "done"
    /\ prev_build.val.target_arg # target_arg
    /\ "B" \in Range(prev_build.val.le_classes)
    /\ "B" \in Range(le_classes)
    /\ CodeOf(prev_build.val.le_classes, "B") = 1
    /\ CodeOf(le_classes, "B") = 0
    /\ \E k \in 1..Len(ds_metadata) : ds_metadata[k].label = "B" /\ labels.val[k] = 0

\* The second construction was given what the first was: the same
\* n_control_samples, and a list equal to the first call's or the first
\* call's list object again.
SameArguments ==
    /\ prev_build.some
    /\ n_control_samples = prev_build.val.n_control_samples
    /\ \/ target_arg = prev_build.val.target_arg
       \/ target_arg = prev_build.val.target_list

\* C16: two constructions from the same file with the same target_list and
\* n_control_samples end the same way, and when they succeed they keep the
\* same rows in the same order, with the same paths and encoded labels.
C16_SameArgumentsSameDataset ==
    (ds_pc \in {"done", "raised"} /\ SameArguments) =>
        /\ ds_pc = prev_build.val.pc
        /\ ds_err = prev_build.val.err
        /\ ds_pc = "done" =>
            /\ ds_metadata = prev_build.val.metadata
            /\ image_locs = prev_build.val.image_locs
            /\ labels = prev_build.val.labels
            /\ le_classes = prev_build.val.le_classes

\* Two constructions with n_control_samples = 1 from a file with two EMPTY
\* rows and a B row: both kept the same EMPTY row.
C16_Witness ==
    /\ ds_pc = "done"
    /\ SameArguments
    /\ n_control_samples = Some(1)
    /\ ClassCount(filtered, "EMPTY") = 2
    /\ ClassCount(filtered, "B") = 1
    /\ Len(ds_metadata) = 2
    /\ ds_metadata = prev_build.val.metadata

C22_ConstructionLeavesTargetListUnchanged ==
    (ds_pc = "done" /\ target_arg.some) => target_list = target_arg

----------------------------------------------------------------------------
(* __getitem__, set_transform_pipeline and TorchTransformableSubset *)

\* The indices the two subsets were made with (line 127).
SubsetIndices == [sb \in Subsets |-> IF sb = "A" THEN <<0>> ELSE <<1, 0>>]

\* The arguments set_transform_pipeline is called with.
PipelineArgs == {None} \cup {Some(x) : x \in Pipelines}

\* The file of the dataset's two rows.
ViewsFile == <<SampleRow(0, "B"), SampleRow(1, "EMPTY")>>

\* A dataset constructed from ViewsFile without target_list and
\* n_control_samples, two subsets made of it, and every reader idle. The
\* first image file is on disk or not.
InitViews ==
    /\ csv_rows = ViewsFile
    /\ target_list = None
    /\ target_arg = None
    /\ n_control_samples = None
    /\ ds_metadata = csv_rows
    /\ filtered = csv_rows
    /\ mt_1234 = {}
    /\ image_locs = ImageLocs(csv_rows)
    /\ le_classes = LabelEncoderFit(LabelsOf(csv_rows))
    /\ labels = Some(LabelEncoderTransform(le_classes, LabelsOf(csv_rows)))
    /\ \E tp \in PipelineArgs :
        /\ transform_pipeline = Some(SetTransformPipeline(tp))
        /\ last_given = Some([on |-> "dataset", tp |-> tp])
    /\ pseudo_rgb \in BOOLEAN
    /\ ds_pc = "done"
    /\ ds_err = "none"
    /\ prev_build = None
    /\ ds_files \in {Range(image_locs), Range(image_locs) \ {image_locs[1]}}
    /\ sub_pipeline = [sb \in Subsets |-> None]
    /\ workers = [w \in Workers |-> [pc |-> "idle", sample |-> None]]
    /\ IdleTrain
    /\ metadata = <<>>
    /\ prev_metadata = <<>>
    /\ call = NoCall
    /\ err = "none"
    /\ IdleCopy
    /\ IdleSeg

\* Lines 102-108, called on the dataset.
DatasetSetTransformPipeline(tp) ==
    /\ ds_pc = "done"
    /\ transform_pipeline' = Some(SetTransformPipeline(tp))
    /\ last_given' = Some([on |-> "dataset", tp |-> tp])
    /\ UNCHANGED <<csv_rows, target_list, target_arg, ds_metadata, ds_pc,
                   n_control_samples, ds_err, filtered, mt_1234, image_locs, labels,
                   le_classes, pseudo_rgb, prev_build, ds_files, sub_pipeline,
                   workers, pre_vars, pad_vars, train_vars>>

\* The subset keeps the pipeline for itself (the assignment commented out
\* at line 133) and does not pass it on.
SubsetSetTransformPipelineMutant(sb, tp) ==
    /\ ds_pc = "done"
    /\ sub_pipeline' = [sub_pipeline EXCEPT ![sb] = tp]
    /\ last_given' = Some([on |-> sb, tp |-> tp])
    /\ UNCHANGED <<ds_vars, ds_files, workers, pre_vars, pad_vars, train_vars>>

\* Lines 130-134, called on a subset of a TorchNucleiImageDataset: the call
\* is passed on to the dataset, the subset's own field is left as it is.
SubsetSetTransformPipeline(sb, tp) ==
    /\ ds_pc = "done"
    /\ transform_pipeline' = Some(SetTransformPipeline(tp))
    /\ last_given' = Some([on |-> sb, tp |-> tp])
    /\ UNCHANGED <<csv_rows, target_list, target_arg, ds_metadata, ds_pc,
                   n_control_samples, ds_err, filtered, mt_1234, image_locs, labels,
                   le_classes, pseudo_rgb, prev_build, ds_files, sub_pipeline,
                   workers, pre_vars, pad_vars, train_vars>>

\* The index into the dataset of item j read through via: the dataset
\* itself, or a subset, whose __getitem__ reads dataset[indices[j]].
DatasetIndex(via, j) == IF via = "dataset" THEN j ELSE SubsetIndices[via][j + 1]

\* The number of items of a view.
ViewLen(via) == IF via = "dataset" THEN DatasetLen ELSE Len(SubsetIndices[via])

\* Line 95: a reader enters __getitem__ and reads the path at idx.
GetItem(w, via, j) ==
    /\ ds_pc = "done"
    /\ workers[w].pc \in {"idle", "raised"}
    /\ j < ViewLen(via)
    /\ workers' = [workers EXCEPT ![w] =
            [pc |-> "loaded", via |-> via, idx |-> DatasetIndex(via, j),
             image_loc |-> image_locs[DatasetIndex(via, j) + 1], sample |-> None]]
    /\ UNCHANGED <<ds_vars, ds_files, sub_pipeline, last_given, pre_vars, pad_vars, train_vars>>

\* process_image that clears the flag once it has converted an image.
ProcessImageMutant(w) ==
    /\ workers[w].pc = "loaded"
    /\ workers[w].image_loc \in ds_files
    /\ workers' = [workers EXCEPT ![w] =
            [pc |-> "processed", via |-> @.via, idx |-> @.idx, image_loc |-> @.image_loc,
             image |-> [file |-> @.image_loc, rgb |-> pseudo_rgb,
                        pipeline |-> transform_pipeline.val,
                        latest |-> (transform_pipeline.val =
                                        SetTransformPipeline(last_given.val.tp))],
             sample |-> None]]
    /\ pseudo_rgb' = FALSE
    /\ UNCHANGED <<csv_rows, target_list, target_arg, ds_metadata, ds_pc,
                   n_control_samples, ds_err, filtered, mt_1234, image_locs, labels,
                   le_classes, transform_pipeline, prev_build, ds_files, sub_pipeline,
                   last_given, pre_vars, pad_vars, train_vars>>

\* Lines 96 and 110-122: the file is read, made pseudo-RGB if the dataset
\* says so, and given to the dataset's pipeline as it is at that moment.
\* latest is history: the pipeline used was the one last asked for.
ProcessImage(w) ==
    /\ workers[w].pc = "loaded"
    /\ workers[w].image_loc \in ds_files
    /\ workers' = [workers EXCEPT ![w] =
            [pc |-> "processed", via |-> @.via, idx |-> @.idx, image_loc |-> @.image_loc,
             image |-> [file |-> @.image_loc, rgb |-> pseudo_rgb,
                        pipeline |-> transform_pipeline.val,
                        latest |-> (transform_pipeline.val =
                                        SetTransformPipeline(last_given.val.tp))],
             sample |-> None]]
    /\ UNCHANGED <<ds_vars, ds_files, sub_pipeline, last_given, pre_vars, pad_vars, train_vars>>

\* Line 111: imread raises FileNotFoundError and __getitem__ returns nothing.
ProcessImageFails(w) ==
    /\ workers[w].pc = "loaded"
    /\ workers[w].image_loc \notin ds_files
    /\ workers' = [workers EXCEPT ![w] = [pc |-> "raised", sample |-> None]]
    /\ UNCHANGED <<ds_vars, ds_files, sub_pipeline, last_given, pre_vars, pad_vars, train_vars>>

\* Lines 97-100: the label at idx is read and the sample returned. idx and
\* via are kept with the sample as history.
GetItemReturn(w) ==
    /\ workers[w].pc = "processed"
    /\ workers' = [workers EXCEPT ![w] =
            [pc |-> "idle",
             sample |-> Some([id |-> @.image_loc, image |-> @.image,
                              label |-> labels.val[@.idx + 1],
                              idx |-> @.idx, via |-> @.via])]]
    /\ UNCHANGED <<ds_vars, ds_files, sub_pipeline, last_given, pre_vars, pad_vars, train_vars>>

NextViews ==
    \/ \E tp \in PipelineArgs : DatasetSetTransformPipeline(tp)
    \/ \E sb \in Subsets, tp \in PipelineArgs : SubsetSetTransformPipeline(sb, tp)
    \/ \E w \in Workers, via \in {"dataset"} \cup Subsets, j \in 0..1 : GetItem(w, via, j)
    \/ \E w \in Workers : ProcessImage(w)
    \/ \E w \in Workers : ProcessImageFails(w)
    \/ \E w \in Workers : GetItemReturn(w)

SpecViews == InitViews /\ [][NextViews]_vars

\* C14: whatever set_transform_pipeline calls were made on the dataset or
\* on either subset, the one pipeline there is is the dataset's and it is
\* the one the latest of those calls asked for (the default for None); every
\* image read, through a subset or directly, was given that pipeline; a
\* subset's own pipeline field is never set.
C14_OnePipelineSharedByAllViews ==
    /\ \A sb \in Subsets : sub_pipeline[sb] = None
    /\ (ds_pc = "done" /\ last_given.some) =>
        transform_pipeline = Some(SetTransformPipeline(last_given.val.tp))
    /\ \A w \in Workers :
        /\ workers[w].pc = "processed" => workers[w].image.latest
        /\ workers[w].sample.some => workers[w].sample.val.image.latest

\* "flip" was set through subset A after the dataset was made with another
\* pipeline, and a sample read through subset B was given "flip".
C14_Witness ==
    /\ last_given = Some([on |-> "A", tp |-> Some("flip")])
    /\ \E w \in Workers :
        /\ workers[w].sample.some
        /\ workers[w].sample.val.via = "B"
        /\ workers[w].sample.val.image.pipeline = "flip"
    /\ \E w \in Workers :
        /\ workers[w].sample.some
        /\ workers[w].sample.val.via = "dataset"
        /\ workers[w].sample.val.image.pipeline = "crop"

\* The fields of the dataset a read may not write.
DatasetState == <<image_locs, labels, ds_metadata, pseudo_rgb, transform_pipeline>>

\* C15: a step of a reader in __getitem__ or process_image, however the
\* readers interleave, leaves image_locs, labels, metadata, pseudo_rgb and
\* transform_pipeline as they were, and a sample returned for index i holds
\* image_locs[i] as id and labels[i] as label.
C15_ReadsWriteNothing ==
    [][workers' # workers =>
        /\ DatasetState' = DatasetState
        /\ \A w \in Workers :
            workers'[w].sample.some =>
                /\ workers'[w].sample.val.id = image_locs[workers'[w].sample.val.idx + 1]
                /\ workers'[w].sample.val.label = labels.val[workers'[w].sample.val.idx + 1]
                /\ image_locs = ImageLocs(csv_rows)]_vars

\* One reader has returned the sample of index 1 while the other is inside
\* process_image for the same index, on a pseudo-RGB dataset.
C15_Witness ==
    /\ pseudo_rgb
    /\ workers[1].sample.some
    /\ workers[1].sample.val.idx = 1
    /\ workers[1].sample.val.id = <<"d", "/", "1", "/", "n", "1">>
    /\ workers[1].sample.val.label = 1
    /\ workers[2].pc = "processed"
    /\ workers[2].idx = 1

----------------------------------------------------------------------------
(* save_padded_images *)

\* An image is the sequence of its pixels, row after row; its size is their
\* number. The crops read from the nuclei directory:
Pixels == {0, 1, 2, 3}
CropImages == UNION {[1..n -> Pixels] : n \in 1..2}

\* The target sizes the call is given or finds in self.pad_size.
TargetSizes == {1, 2, 3}

\* np.uint16 holds the values below 2^16 (line 282).
UInt16 == 65536

\* get_file_list(input_dir): the crops of the first image, by label.
FileList(n) == [k \in 1..n |-> <<1, CropFileName(ImageName(1), k)>>]

\* src.utils.basic.segmentation.pad_image: the image on a canvas of zeros of
\* the target size.
pad_image(image, size) == image \o [k \in 1..(size - Len(image)) |-> 0]

\* Line 282: astype(np.uint16).
AsUInt16(image) == [k \in 1..Len(image) |-> image[k] % UInt16]

ImageMin(image) == CHOOSE m \in Range(image) : \A x \in Range(image) : m <= x
ImageMax(image) == CHOOSE m \in Range(image) : \A x \in Range(image) : m >= x

\* What astype(np.uint8) makes of NaN: the conversion is not defined, any
\* byte can come out.
NaNAsUInt8 == 0..255

\* Lines 283-287: (p - min) / (max - min), clipped to [0, 1], times 255, cut
\* to an integer. When max = min every pixel is 0 / 0 = NaN, which numpy
\* computes with a warning and without an exception, and nan is what the
\* cast to uint8 is given.
Rescale(image, nan) ==
    IF ImageMax(image) = ImageMin(image)
    THEN [k \in 1..Len(image) |-> nan]
    ELSE [k \in 1..Len(image) |->
            ((255 * (image[k] - ImageMin(image)))
                \div (ImageMax(image) - ImageMin(image))) % 256]

\* Lines 264-272: the file list is read and the loop entered.
SavePaddedImages(n, size) ==
    /\ pad_pc = "idle"
    /\ pad_pc' = "loop"
    /\ pad_i' = 0
    /\ file_list' = FileList(n)
    /\ target_size' = Some(size)
    /\ UNCHANGED <<padded_image, padded_files, pre_vars, ds_vars, view_vars, train_vars>>

\* Lines 273-288 for file i: the crop is read, padded, rescaled with its own
\* minimum and maximum and written under the same name.
PadAndSave ==
    /\ pad_pc = "loop"
    /\ pad_i < Len(file_list)
    /\ \E image \in CropImages :
        /\ Len(image) <= target_size.val
        /\ LET padded == AsUInt16(pad_image(image, target_size.val))
           IN  \E nan \in (IF ImageMax(padded) = ImageMin(padded) THEN NaNAsUInt8 ELSE {0}) :
                padded_image' = Some([file |-> file_list[pad_i + 1], image |-> image,
                                      padded |-> padded, out |-> Rescale(padded, nan)])
    /\ padded_files' = padded_files \cup {file_list[pad_i + 1]}
    /\ pad_i' = pad_i + 1
    /\ UNCHANGED <<pad_pc, file_list, target_size, pre_vars, ds_vars, view_vars, train_vars>>

\* Line 281: the crop is larger than the target size and pad_image fails.
PadImageFails ==
    /\ pad_pc = "loop"
    /\ pad_i < Len(file_list)
    /\ \E image \in CropImages : Len(image) > target_size.val
    /\ pad_pc' = "raised"
    /\ UNCHANGED <<pad_i, file_list, target_size, padded_image, padded_files,
                   pre_vars, ds_vars, view_vars, train_vars>>

\* Line 273: the loop is over.
SavePaddedReturn ==
    /\ pad_pc = "loop"
    /\ pad_i = Len(file_list)
    /\ pad_pc' = "done"
    /\ UNCHANGED <<pad_i, file_list, target_size, padded_image, padded_files,
                   pre_vars, ds_vars, view_vars, train_vars>>

InitPad ==
    /\ metadata = <<>>
    /\ prev_metadata = <<>>
    /\ call = NoCall
    /\ err = "none"
    /\ IdleCopy
    /\ IdleSeg
    /\ IdleDs

NextPad ==
    \/ \E n \in 0..MaxImages, size \in TargetSizes : SavePaddedImages(n, size)
    \/ PadAndSave
    \/ PadImageFails
    \/ SavePaddedReturn

SpecPad == InitPad /\ [][NextPad]_vars

\* C20: every image written by save_padded_images is the padded crop
\* rescaled with its own minimum and maximum: each pixel is the integer
\* floor(255 * (p - min) / (max - min)) in 0..255, the minimum becomes 0 and
\* the maximum 255, also when all padded pixels are equal.
C20_PaddedImageRescaledToBytes ==
    padded_image.some =>
        LET image == padded_image.val.padded
            out == padded_image.val.out
            lo == ImageMin(image)
            hi == ImageMax(image)
        IN  /\ Len(out) = Len(image)
            /\ \A k \in 1..Len(image) :
                /\ out[k] \in 0..255
                /\ out[k] * (hi - lo) <= 255 * (image[k] - lo)
                /\ 255 * (image[k] - lo) < (out[k] + 1) * (hi - lo)
                /\ image[k] = lo => out[k] = 0
                /\ image[k] = hi => out[k] = 255

(***************************************************************************)
(* ImageEmbeddingExperimentCV.train_models                                 *)
(* (src/experiments/image_embeddings.py, lines 205-236)                    *)
(* The model's weights are one value of Weights. The training loop of a    *)
(* fold works on the model in place and hands back two loss records.       *)
(***************************************************************************)
MaxFolds == 3

\* The loss records a training loop can hand back.
Losses == {"l1", "l2"}

\* Lines 208-210: copy.deepcopy of the state dict is a value of its own, which
\* later changes of the model do not reach.
DeepCopy(state_dict) == state_dict

\* Kept as they are: the weights of the model (the state dict is not loaded).
LoadStateDictMutant(weights, state_dict) == weights

\* Lines 221-223: load_state_dict copies every entry of the state dict into
\* the model, whatever the model held.
LoadStateDict(weights, state_dict) == state_dict

\* Line 224: what model_train_val_test_loop can leave and hand back: the
\* model with any weights, a loss record and a best-loss record.
TrainValTestLoop ==
    [weights : Weights, loss_dict : Losses, best_loss_dict : Losses]

\* Lines 206-210: the call is entered, the records are emptied and the
\* snapshot is taken; the loop variable starts at 0.
TrainModels ==
    /\ tr_pc \in {"idle", "done", "raised"}
    /\ n_folds > 0
    /\ loss_dicts' = <<>>
    /\ best_loss_dicts' = <<>>
    /\ initial_model_weights' = Some(DeepCopy(model_weights))
    /\ entry_weights' = Some(model_weights)
    /\ completed' = <<>>
    /\ tr_i' = 0
    /\ tr_pc' = "loop"
    /\ UNCHANGED <<n_folds, model_weights, data_loader_dicts, data_loader_dict,
                   fold_dirs, pre_vars, ds_vars, view_vars, pad_vars>>

\* Lines 212-223: the directory fold_{i+1} is made, the data loaders of the
\* fold are handed to the domain configuration and the snapshot is loaded
\* into the model. Python's data_loader_dicts[i] is element i+1 here.
StartFold ==
    /\ tr_pc = "loop"
    /\ tr_i < n_folds
    /\ (tr_i + 1) \notin fold_dirs
    /\ fold_dirs' = fold_dirs \cup {tr_i + 1}
    /\ data_loader_dict' = Some(data_loader_dicts[tr_i + 1])
    /\ model_weights' = LoadStateDict(model_weights, initial_model_weights.val)
    /\ tr_pc' = "loaded"
    /\ UNCHANGED <<n_folds, tr_i, initial_model_weights, entry_weights,
                   data_loader_dicts, loss_dicts, best_loss_dicts, completed,
                   pre_vars, ds_vars, view_vars, pad_vars>>

\* Line 216: the directory is there already and os.makedirs raises
\* FileExistsError.
MakedirsFails ==
    /\ tr_pc = "loop"
    /\ tr_i < n_folds
    /\ (tr_i + 1) \in fold_dirs
    /\ tr_pc' = "raised"
    /\ UNCHANGED <<n_folds, tr_i, model_weights, initial_model_weights,
                   entry_weights, data_loader_dicts, data_loader_dict, fold_dirs,
                   loss_dicts, best_loss_dicts, completed,
                   pre_vars, ds_vars, view_vars, pad_vars>>

\* Lines 224-236: the fold is trained, its two records are appended, and
\* the loss curves and the latents are written out; then the next i.
TrainFold ==
    /\ tr_pc = "loaded"
    /\ \E r \in TrainValTestLoop :
        /\ model_weights' = r.weights
        /\ loss_dicts' = Append(loss_dicts, r.loss_dict)
        /\ best_loss_dicts' = Append(best_loss_dicts, r.best_loss_dict)
    /\ completed' = Append(completed, tr_i + 1)
    /\ tr_i' = tr_i + 1
    /\ tr_pc' = "loop"
    /\ UNCHANGED <<n_folds, initial_model_weights, entry_weights,
                   data_loader_dicts, data_loader_dict, fold_dirs,
                   pre_vars, ds_vars, view_vars, pad_vars>>

\* Line 224: the training loop raises, with the model left as far as it got.
TrainFoldFails ==
    /\ tr_pc = "loaded"
    /\ model_weights' \in Weights
    /\ tr_pc' = "raised"
    /\ UNCHANGED <<n_folds, tr_i, initial_model_weights, entry_weights,
                   data_loader_dicts, data_loader_dict, fold_dirs, loss_dicts,
                   best_loss_dicts, completed,
                   pre_vars, ds_vars, view_vars, pad_vars>>

\* Line 212: the loop is over.
TrainModelsReturn ==
    /\ tr_pc = "loop"
    /\ tr_i = n_folds
    /\ tr_pc' = "done"
    /\ UNCHANGED <<n_folds, tr_i, model_weights, initial_model_weights,
                   entry_weights, data_loader_dicts, data_loader_dict, fold_dirs,
                   loss_dicts, best_loss_dicts, completed,
                   pre_vars, ds_vars, view_vars, pad_vars>>

\* An experiment set up for 1..MaxFolds folds with one data loader dictionary
\* per fold (lines 190-201), a model with any weights, and an output
\* directory that is new or holds one fold directory of an earlier run.
InitTrain ==
    /\ tr_pc = "idle"
    /\ n_folds \in 1..MaxFolds
    /\ tr_i = 0
    /\ model_weights \in Weights
    /\ initial_model_weights = None
    /\ entry_weights = None
    /\ data_loader_dicts \in [1..n_folds -> Loaders]
    /\ data_loader_dict = None
    /\ fold_dirs \in {{}} \cup {{k} : k \in 1..n_folds}
    /\ loss_dicts = <<>>
    /\ best_loss_dicts = <<>>
    /\ completed = <<>>
    /\ metadata = <<>>
    /\ prev_metadata = <<>>
    /\ call = NoCall
    /\ err = "none"
    /\ IdleCopy
    /\ IdleSeg
    /\ csv_rows = <<>>
    /\ target_list = None
    /\ target_arg = None
    /\ ds_metadata = <<>>
    /\ ds_pc = "new"
    /\ n_control_samples = None
    /\ ds_err = "none"
    /\ filtered = <<>>
    /\ mt_1234 = {}
    /\ image_locs = <<>>
    /\ labels = None
    /\ le_classes = <<>>
    /\ transform_pipeline = None
    /\ pseudo_rgb = FALSE
    /\ prev_build = None
    /\ IdleViews

NextTrain ==
    \/ TrainModels
    \/ StartFold
    \/ MakedirsFails
    \/ TrainFold
    \/ TrainFoldFails
    \/ TrainModelsReturn

SpecTrain == InitTrain /\ [][NextTrain]_vars

====
